---- MODULE Spec2Model ----
(***************************************************************************)
(* Wallet ledger of the crypto-tracker backend.                            *)
(*                                                                         *)
(* One user document is stored in MongoDB (db).  Every HTTP request runs   *)
(* the chain  auth -> validateTransaction -> buyCrypto / sellCrypto  on    *)
(* its own in-memory copy of the document (doc[r]), loaded by auth with    *)
(* User.findById.  Requests of the same user interleave at every await.    *)
(*                                                                         *)
(* Document.save() of mongoose sends only the paths that were modified     *)
(* since the document was loaded: a changed number as a $set of its new    *)
(* absolute value, elements pushed to an array as a $push.                 *)
(*                                                                         *)
(* Further specifications over the same state: SpecSell (concurrent sells  *)
(* of one unit), SpecRate (getUsdtRate of currencyService and its cache),  *)
(* SpecPortfolio (getPortfolio next to buys and sells), SpecSuccessRate    *)
(* (calculateSuccessRate), SpecTransactions (getTransactions), SpecToggle  *)
(* (toggleLikeCoin and toggleBookmarkCoin next to buys and sells),         *)
(* SpecCase (one coin written in three letter cases), SpecReject          *)
(* (malformed trade intents next to getPortfolio), SpecRead (the three     *)
(* read routes next to buys and sells), SpecCache (the portfolios of two   *)
(* users while time passes), SpecOwner (toggles whose body names a user)   *)
(* and SpecLegacy (buyCrypto and sellCrypto of the single-balance          *)
(* generation of the controller and the user model).                       *)
(***************************************************************************)
EXTENDS Integers, Sequences, FiniteSets, TLC

\* ---------------------------------------------------------------- bounds
NumReq == 2
MaxRequests == 3
MaxAmount == 1
MaxPrice == 2
OpeningTMN == 2
OpeningUSDT == 1
OpeningLegacy == 8
LegacyAmount == 2
TimeStep == 30
MaxTime == 90

Req == 1..NumReq
Coins == {"BTC", "eth"}
Symbols == {"BTC", "ETH"}
Currencies == {"TMN", "USDT"}
BalanceKeys == {"tmn", "usdt"}
Types == {"buy", "sell"}

\* request bodies a client can send (amount 0 is a malformed intent)
Bodies == [coin : Coins, amount : 0..MaxAmount, price : 1..MaxPrice,
           currency : Currencies]

\* ------------------------------------------------------ string conversions
toUpperCase(s) ==
    CASE s = "btc" -> "BTC"
      [] s = "eth" -> "ETH"
      [] s = "Eth" -> "ETH"
      [] OTHER -> s

toLowerCase(s) ==
    CASE s = "TMN" -> "tmn"
      [] s = "USDT" -> "usdt"
      [] s = "EUR" -> "eur"
      [] OTHER -> s

\* ------------------------------------------------------------- validation
validateTransaction(body) ==
    /\ body.amount # 0 /\ body.price # 0
    /\ ~(body.amount <= 0 \/ body.price <= 0)

\* zod: positive numbers and a known currency.  The upper limit of price
\* (10^12) exceeds every price of the model and is left out.
\* (mutant) the currency is any string
transactionSchema_NoCurrency(body) ==
    /\ body.amount > 0 /\ body.amount <= 1000000
    /\ body.price > 0

transactionSchema(body) ==
    /\ body.amount > 0 /\ body.amount <= 1000000
    /\ body.price > 0
    /\ body.currency \in {"TMN", "USDT"}

\* ------------------------------------------------------------ user model
\* index of the first lot of that coin, 0 when there is none (Array.find)
RECURSIVE findFrom(_, _, _)
findFrom(assets, coin, i) ==
    IF i > Len(assets) THEN 0
    ELSE IF assets[i].coin = coin THEN i
    ELSE findFrom(assets, coin, i + 1)

find(assets, coin) == findFrom(assets, coin, 1)

\* (mutant) the cost is taken from, or the proceeds added to, every balance
addTransaction_EveryBalance(d, tx) ==
    LET i == find(d.assets, tx.coin)
        sign == IF tx.type = "buy" THEN 1 ELSE -1
    IN  [d EXCEPT
           !.transactions = Append(@, tx),
           !.balance = [k \in BalanceKeys |-> @[k] - sign * tx.price * tx.amount],
           !.assets = IF i # 0
                      THEN [@ EXCEPT ![i].amount = @ + sign * tx.amount]
                      ELSE IF tx.type = "buy"
                      THEN Append(@, [coin |-> tx.coin, amount |-> tx.amount])
                      ELSE @]

\* the in-memory effect of userSchema.methods.addTransaction, before its save
addTransaction(d, tx) ==
    LET balanceKey == toLowerCase(tx.currency)
        i == find(d.assets, tx.coin)
        pushed == [d EXCEPT !.transactions = Append(@, tx)]
    IN  IF tx.type = "buy" THEN
            [pushed EXCEPT
               !.balance[balanceKey] = @ - tx.price * tx.amount,
               !.assets = IF i # 0
                          THEN [@ EXCEPT ![i].amount = @ + tx.amount]
                          ELSE Append(@, [coin |-> tx.coin,
                                          amount |-> tx.amount])]
        ELSE IF tx.type = "sell" THEN
            [pushed EXCEPT
               !.balance[balanceKey] = @ + tx.price * tx.amount,
               !.assets = IF i # 0
                          THEN [@ EXCEPT ![i].amount = @ - tx.amount]
                          ELSE @]
        ELSE pushed

\* Document.save(): the stored document after the modified paths of the
\* in-memory document (before -> after) have been written to it.
\* (mutant) the whole array is written back instead of the pushed elements
savePush_Overwrite(stored, before, after) == after

\* array elements pushed since the load: $push
savePush(stored, before, after) ==
    stored \o SubSeq(after, Len(before) + 1, Len(after))

\* (mutant) the change of a balance is sent as an increment
saveBalance_Inc(stored, before, after) ==
    [k \in BalanceKeys |-> stored[k] + (after[k] - before[k])]

\* a changed balance: $set of wallet.balance.<key> to its new value
saveBalance(stored, before, after) ==
    [k \in BalanceKeys |->
        IF after[k] # before[k] THEN after[k] ELSE stored[k]]

\* (mutant) the change of a lot's amount is sent as an increment
saveAssets_Inc(stored, before, after) ==
    LET inc == [i \in 1..Len(stored) |->
                   IF i <= Len(before)
                   THEN [stored[i] EXCEPT
                           !.amount = @ + (after[i].amount - before[i].amount)]
                   ELSE stored[i]]
    IN  inc \o SubSeq(after, Len(before) + 1, Len(after))

\* a changed lot: $set of wallet.assets.<i>.amount; a new lot: $push
saveAssets(stored, before, after) ==
    LET set == [i \in 1..Len(stored) |->
                   IF i <= Len(before) /\ after[i].amount # before[i].amount
                   THEN [stored[i] EXCEPT !.amount = after[i].amount]
                   ELSE stored[i]]
    IN  savePush(set, before, after)

\* an array of strings: untouched, pushed to ($push), or assigned ($set of
\* the whole array, which mongoose sends with a check of the version key:
\* a conflict is one of the failures of the save)
saveArray(stored, before, after) ==
    IF after = before THEN stored
    ELSE IF Len(after) > Len(before) THEN savePush(stored, before, after)
    ELSE after

save_Whole(stored, before, after) == after

save(stored, before, after) ==
    [id |-> stored.id,
     balance |-> saveBalance(stored.balance, before.balance, after.balance),
     assets |-> saveAssets(stored.assets, before.assets, after.assets),
     transactions |-> savePush(stored.transactions, before.transactions,
                               after.transactions),
     likedCoins |-> saveArray(stored.likedCoins, before.likedCoins,
                              after.likedCoins),
     bookmarkedCoins |-> saveArray(stored.bookmarkedCoins,
                                   before.bookmarkedCoins,
                                   after.bookmarkedCoins)]

\* --------------------------------------------------------- the controller
\* (mutant) the cost is compared with the sum of both balances
insufficientFunds_AnyCurrency(d, body) ==
    d.balance["tmn"] + d.balance["usdt"] < body.amount * body.price

\* a balance that does not exist is undefined, and undefined < n is false
insufficientFunds(d, body) ==
    LET balanceKey == toLowerCase(body.currency)
    IN  /\ balanceKey \in DOMAIN d.balance
        /\ d.balance[balanceKey] < body.amount * body.price

\* (mutant) only a missing lot is refused, the amount is not compared
insufficientHoldings_NoLotOnly(d, body) ==
    find(d.assets, toUpperCase(body.coin)) = 0

insufficientHoldings(d, body) ==
    LET i == find(d.assets, toUpperCase(body.coin))
    IN  i = 0 \/ d.assets[i].amount < body.amount

\* (mutant) the coin is logged as the client wrote it
newTransaction_AsWritten(body, type) ==
    [coin |-> body.coin, amount |-> body.amount,
     price |-> body.price, type |-> type, currency |-> body.currency]

newTransaction(body, type) ==
    [coin |-> toUpperCase(body.coin), amount |-> body.amount,
     price |-> body.price, type |-> type, currency |-> body.currency]

\* ------------------------------------------------- values of JavaScript
\* A value a provider's payload may carry, and what the conversions of the
\* language make of it.  Text stands for a string that is not a numeral,
\* Numeral(n) for the string of the digits of n, Decimal(n) for the numeral
\* of n / 2 with n odd ("1.5" is Decimal(3)) and Fraction(n) for that number.
Undefined == [tag |-> "undefined", v |-> 0]
Null == [tag |-> "null", v |-> 0]
NaN == [tag |-> "NaN", v |-> 0]
Infinity == [tag |-> "Infinity", v |-> 0]
Text == [tag |-> "string", v |-> 0]
Numeral(n) == [tag |-> "numeral", v |-> n]
Num(n) == [tag |-> "number", v |-> n]
Decimal(n) == [tag |-> "decimal", v |-> n]
Fraction(n) == [tag |-> "fraction", v |-> n]

\* ToBoolean
truthy(x) ==
    CASE x.tag = "number" -> x.v # 0
      [] x.tag \in {"Infinity", "string", "numeral", "object", "decimal",
                     "fraction"} -> TRUE
      [] OTHER -> FALSE

\* a || b
or(a, b) == IF truthy(a) THEN a ELSE b

\* Number(x)
Number(x) ==
    CASE x.tag \in {"undefined", "string"} -> NaN
      [] x.tag = "null" -> Num(0)
      [] x.tag = "numeral" -> Num(x.v)
      [] x.tag = "decimal" -> Fraction(x.v)
      [] OTHER -> x

isNaN(x) == Number(x) = NaN

\* x > 0
positive(x) ==
    CASE x.tag \in {"number", "fraction"} -> x.v > 0
      [] x.tag = "Infinity" -> TRUE
      [] OTHER -> FALSE

\* ------------------------------------------------------------- priceCache
priceTTL == 10

\* (mutant) one key for every user
cacheKey_Shared(user) == "portfolio"

\* `portfolio_${user._id}`
cacheKey(user) ==
    IF user.id = "other" THEN "portfolio_other" ELSE "portfolio_user"

\* priceCache.get(key): the value, or undefined when absent or past its time
priceCacheGet(entries, key, t) ==
    IF \E e \in entries : e.key = key /\ ~(e.expires < t)
    THEN (CHOOSE e \in entries : e.key = key).value
    ELSE Undefined

\* priceCache.set(key, value)
priceCacheSet(entries, key, value, t) ==
    {e \in entries : e.key # key}
        \cup {[key |-> key, value |-> value, expires |-> t + priceTTL]}

priceCacheDel_Noop(entries, key) == entries

\* priceCache.del(key)
priceCacheDel(entries, key) == {e \in entries : e.key # key}

\* ------------------------------------------------------------------ state
VARIABLES
    db,          \* the stored user document
    priceCache,  \* portfolio cache: the entries it holds
    pc,          \* where each request stands
    kind,        \* "buy" | "sell": the route of the request
    body,        \* req.body
    doc,         \* req.user, the in-memory document
    loaded,      \* the document as auth loaded it
    session,     \* the request's mongoose session: the calls made on it
                 \* and the error executeWithTransaction threw
    response,    \* what was sent to the client
    started,     \* number of requests received so far
    overlapped,  \* some request was received while another was in flight
    ackBalance,  \* per balance key: proceeds minus costs of acknowledged trades
    ackAmount,   \* per symbol: amount bought minus sold in acknowledged trades
    acked,       \* number of trades acknowledged as successful so far
    seen,        \* per getPortfolio request: acked when it was received
    appended,    \* per request: log records its saves added to the store
    errors,      \* number of errors the handlers' catch wrote to console.error
    cache,       \* the rate cache of currencyService (key usdt_toman_rate)
    now,         \* Date.now(), in seconds
    outcomes,    \* per call of getUsdtRate: what its providers returned
    resolved,    \* the rates getUsdtRate resolved from providers or fallback
    usdtRate,    \* per request or call: the value getUsdtRate returned
    served,      \* per getPortfolio request: the portfolio data it answered
    toggled,     \* the last successful toggle and the sets before it
    dbOther,     \* the stored document of a second user
    legacy,      \* the stored document of the single-balance generation
    arg,         \* input of the read-only projection under study
    result       \* its output

\* the state outside the wallet ledger
aux == <<cache, now, outcomes, resolved, usdtRate, served, toggled, dbOther,
        legacy,
         arg, result>>

vars == <<db, priceCache, pc, kind, body, doc, loaded, session, response,
          started, overlapped, ackBalance, ackAmount, acked, seen, appended,
          errors, aux>>

NoBody == [coin |-> "BTC", amount |-> 0, price |-> 1, currency |-> "TMN"]

registered ==
    [id |-> "user",
     balance |-> [k \in BalanceKeys |->
                     IF k = "tmn" THEN OpeningTMN ELSE OpeningUSDT],
     assets |-> <<>>,
     transactions |-> <<>>,
     likedCoins |-> <<>>,
     bookmarkedCoins |-> <<>>]

\* a second registered user, who holds one toman more and no USDT
otherUser ==
    [registered EXCEPT
       !.id = "other",
       !.balance = [k \in BalanceKeys |->
                       IF k = "tmn" THEN OpeningTMN + 1 ELSE 0]]

\* the user as the single-balance generation registers it
legacyRegistered ==
    [wallet |-> [balance |-> OpeningLegacy, assets |-> <<>>],
     transactions |-> <<>>]

\* no toggle has succeeded yet
NoToggle ==
    [kind |-> "none", coin |-> "", liked |-> {}, bookmarked |-> {},
     twice |-> FALSE, behind |-> FALSE]

\* node-cache holds nothing under the key
NoEntry == [present |-> FALSE, value |-> Undefined, expires |-> 0]

InitServices ==
    /\ cache = NoEntry
    /\ now = 0
    /\ outcomes = [r \in Req |-> <<>>]
    /\ resolved = <<>>
    /\ usdtRate = [r \in Req |-> Undefined]
    /\ served = [r \in Req |-> Undefined]
    /\ toggled = NoToggle
    /\ dbOther = otherUser
    /\ legacy = legacyRegistered

\* no session: mongoose.startSession() has not been called
NoSession ==
    [started |-> FALSE, committed |-> FALSE, aborted |-> FALSE, ended |-> 0,
     thrown |-> "none"]

InitRequests ==
    /\ InitServices
    /\ priceCache = {}
    /\ pc = [r \in Req |-> "idle"]
    /\ kind = [r \in Req |-> "buy"]
    /\ body = [r \in Req |-> NoBody]
    /\ session = [r \in Req |-> NoSession]
    /\ response = [r \in Req |-> "none"]
    /\ started = 0
    /\ overlapped = FALSE
    /\ seen = [r \in Req |-> 0]
    /\ appended = [r \in Req |-> 0]
    /\ errors = 0

\* the registered user, no request received yet
InitWallet ==
    /\ ackBalance = [k \in BalanceKeys |-> 0]
    /\ ackAmount = [s \in Symbols |-> 0]
    /\ acked = 0
    /\ db = registered
    /\ doc = [r \in Req |-> registered]
    /\ loaded = [r \in Req |-> registered]
    /\ InitRequests

\* no read-only projection is under study
NoCall == arg = Undefined /\ result = Undefined

Init == InitWallet /\ NoCall

InFlight(r) == pc[r] \notin {"idle", "done"}

\* auth: the request arrives and User.findById loads the stored document
\* (the request takes the first free slot: slots carry no identity)
receiveAs(r, t, b, user) ==
    /\ pc[r] \in {"idle", "done"}
    /\ \A q \in Req : q < r => InFlight(q)
    /\ started < MaxRequests
    /\ started' = started + 1
    /\ overlapped' = (overlapped \/ \E q \in Req : InFlight(q))
    /\ kind' = [kind EXCEPT ![r] = t]
    /\ body' = [body EXCEPT ![r] = b]
    /\ doc' = [doc EXCEPT ![r] = user]
    /\ loaded' = [loaded EXCEPT ![r] = user]
    /\ seen' = [seen EXCEPT ![r] = IF t = "portfolio" THEN acked ELSE 0]
    /\ session' = [session EXCEPT ![r] = NoSession]
    /\ response' = [response EXCEPT ![r] = "none"]
    /\ pc' = [pc EXCEPT ![r] = "handler"]
    /\ appended' = [appended EXCEPT ![r] = 0]
    /\ UNCHANGED <<db, priceCache, ackBalance, ackAmount, acked, errors>>
    /\ UNCHANGED aux

\* the token is the one of the first user
receive(r, t, b) == receiveAs(r, t, b, db)

auth(r) == \E t \in Types, b \in Bodies : receive(r, t, b)

\* the request is over: req, its document and its session are dropped
finish(r, answer) ==
    /\ response' = [response EXCEPT ![r] = answer]
    /\ pc' = [pc EXCEPT ![r] = "done"]
    /\ kind' = [kind EXCEPT ![r] = "buy"]
    /\ body' = [body EXCEPT ![r] = NoBody]
    /\ doc' = [doc EXCEPT ![r] = registered]
    /\ loaded' = [loaded EXCEPT ![r] = registered]
    /\ seen' = [seen EXCEPT ![r] = 0]

\* res.status(400) and return, before any session exists
reject(r, answer) ==
    /\ finish(r, answer)
    /\ UNCHANGED <<session, errors>>

\* executeWithTransaction: catch (abortTransaction, rethrow), finally
\* (endSession); the handler's catch logs the error and answers 500.
\* The step at pc[r] threw.  abortTransaction takes effect and the error
\* caught is thrown again; or, once commitTransaction has been called, the
\* driver refuses the abort (MongoTransactionError), and that rejection of
\* the await is what leaves the catch.
abortTransaction(r) ==
    /\ \/ session' = [session EXCEPT ![r].aborted = TRUE,
                                      ![r].ended = @ + 1,
                                      ![r].thrown = pc[r]]
       \/ /\ pc[r] = "commit"
          /\ session' = [session EXCEPT ![r].ended = @ + 1,
                                        ![r].thrown = "abortTransaction"]
    /\ errors' = errors + 1
    /\ finish(r, "ServerError")

\* (mutant) the operation first awaits the rate resolver
startTransaction_AwaitRate(r) ==
    /\ session' = [session EXCEPT ![r].started = TRUE]
    /\ pc' = [pc EXCEPT ![r] = "rate"]
    /\ UNCHANGED <<response, kind, body, doc, loaded, seen, errors>>

startTransaction(r) ==
    /\ session' = [session EXCEPT ![r].started = TRUE]
    /\ pc' = [pc EXCEPT ![r] = "operation"]
    /\ UNCHANGED <<response, kind, body, doc, loaded, seen, errors>>

\* buyCrypto up to the call of executeWithTransaction
buyCrypto(r) ==
    /\ pc[r] = "handler" /\ kind[r] = "buy"
    /\ IF ~validateTransaction(body[r]) \/ ~transactionSchema(body[r])
       THEN reject(r, "BadRequest")
       ELSE IF insufficientFunds(doc[r], body[r])
       THEN reject(r, "InsufficientFunds")
       ELSE startTransaction(r)
    /\ UNCHANGED <<db, priceCache, started, overlapped, ackBalance, ackAmount, acked,
                   appended>>
    /\ UNCHANGED aux

\* sellCrypto up to the call of executeWithTransaction
sellCrypto(r) ==
    /\ pc[r] = "handler" /\ kind[r] = "sell"
    /\ IF ~validateTransaction(body[r]) \/ ~transactionSchema(body[r])
       THEN reject(r, "BadRequest")
       ELSE IF insufficientHoldings(doc[r], body[r])
       THEN reject(r, "InsufficientHoldings")
       ELSE startTransaction(r)
    /\ UNCHANGED <<db, priceCache, started, overlapped, ackBalance, ackAmount, acked,
                   appended>>
    /\ UNCHANGED aux

\* user.addTransaction(tx): mutate the document, then this.save() without
\* the session; the write reaches the store, or fails and nothing is written
operation(r) ==
    /\ pc[r] = "operation"
    /\ LET after == addTransaction(doc[r], newTransaction(body[r], kind[r]))
       IN  \/ /\ db' = save(db, doc[r], after)
              /\ appended' = [appended EXCEPT
                                ![r] = Len(db'.transactions)
                                        - Len(db.transactions)]
              /\ doc' = [doc EXCEPT ![r] = after]
              /\ pc' = [pc EXCEPT ![r] = "sessionSave"]
              /\ UNCHANGED <<kind, body, loaded, seen, session, response, errors>>
           \/ /\ db' = db
              /\ appended' = appended
              /\ abortTransaction(r)
    /\ UNCHANGED <<priceCache, started, overlapped, ackBalance, ackAmount, acked>>
    /\ UNCHANGED aux

\* user.save({ session }): nothing is modified any more, so nothing is
\* written; the round trip under the session succeeds or fails
sessionSave(r) ==
    /\ pc[r] = "sessionSave"
    /\ \/ /\ pc' = [pc EXCEPT ![r] = "commit"]
          /\ UNCHANGED <<kind, body, doc, loaded, seen, session, response, errors>>
       \/ abortTransaction(r)
    /\ UNCHANGED <<db, priceCache, started, overlapped, ackBalance, ackAmount, acked,
                   appended>>
    /\ UNCHANGED aux

\* session.commitTransaction(): no write was made under the session
commitTransaction(r) ==
    /\ pc[r] = "commit"
    /\ \/ /\ session' = [session EXCEPT ![r].committed = TRUE]
          /\ pc' = [pc EXCEPT ![r] = "respond"]
          /\ UNCHANGED <<kind, body, doc, loaded, seen, response, errors>>
       \/ abortTransaction(r)
    /\ UNCHANGED <<db, priceCache, started, overlapped, ackBalance, ackAmount, acked,
                   appended>>
    /\ UNCHANGED aux

\* finally (endSession), priceCache.del, res.json({ success: true })
respond(r) ==
    /\ pc[r] = "respond"
    /\ priceCache' = priceCacheDel(priceCache, cacheKey(doc[r]))
    /\ finish(r, "Success")
    /\ LET k == toLowerCase(body[r].currency)
           s == toUpperCase(body[r].coin)
           sign == IF kind[r] = "buy" THEN 1 ELSE -1
       IN  /\ ackBalance' = [ackBalance EXCEPT
                               ![k] = @ - sign * body[r].amount * body[r].price]
           /\ ackAmount' = [ackAmount EXCEPT ![s] = @ + sign * body[r].amount]
    /\ acked' = acked + 1
    /\ session' = [session EXCEPT ![r].ended = @ + 1]
    /\ UNCHANGED <<db, started, overlapped, appended, errors>>
    /\ UNCHANGED aux

Next ==
    \E r \in Req :
        \/ auth(r)
        \/ buyCrypto(r)
        \/ sellCrypto(r)
        \/ operation(r)
        \/ sessionSave(r)
        \/ commitTransaction(r)
        \/ respond(r)

Spec == Init /\ [][Next]_vars

TypeOK ==
    /\ started \in 0..MaxRequests
    /\ Len(db.transactions) <= MaxRequests

\* ------------------------------------------- concurrent sells of one unit
\* The wallet after an acknowledged buy of 1 BTC at 1 TMN; then NumReq sell
\* requests of 1 BTC, each received while the earlier ones are in flight.
boughtOne ==
    addTransaction(registered,
                   [coin |-> "BTC", amount |-> 1, price |-> 1, type |-> "buy",
                    currency |-> "TMN"])

SellBodies == [coin : {"BTC"}, amount : {1}, price : 1..MaxPrice,
               currency : Currencies]

InitSell ==
    /\ db = boughtOne
    /\ doc = [r \in Req |-> registered]
    /\ loaded = [r \in Req |-> registered]
    /\ ackBalance = [k \in BalanceKeys |-> IF k = "tmn" THEN -1 ELSE 0]
    /\ ackAmount = [s \in Symbols |-> IF s = "BTC" THEN 1 ELSE 0]
    /\ acked = 1
    /\ InitRequests
    /\ NoCall

authSell(r) ==
    /\ pc[r] = "idle"
    /\ \E b \in SellBodies : receive(r, "sell", b)

NextSell ==
    \E r \in Req :
        \/ authSell(r)
        \/ sellCrypto(r)
        \/ operation(r)
        \/ sessionSave(r)
        \/ commitTransaction(r)
        \/ respond(r)

SpecSell == InitSell /\ [][NextSell]_vars

\* ------------------------------------------------------- currencyService
stdTTL == 60
fallback == 100000

Raws == {Undefined, Text, Infinity, Num(-1), Num(0), Num(5), Num(7)}

\* what axios.get of the exir ticker ends in: a rejection, or res.data
Thrown == [throws |-> TRUE, open |-> Undefined, last |-> Undefined]

ExirResponses == {Thrown} \cup [throws : {FALSE}, open : Raws, last : Raws]

\* what axios.get of the wallex markets ends in: a rejection, or the
\* lastPrice of the USDTTMN market (undefined when a link of the chain is)
WallexResponses ==
    {[throws |-> TRUE, lastPrice |-> Undefined]}
        \cup [throws : {FALSE}, lastPrice : Raws]

fetchFromExir(res) ==
    IF res.throws THEN Null
    ELSE LET price == Number(or(res.open, res.last))
         IN  IF isNaN(price) THEN Null ELSE price

fetchFromWallex(res) ==
    IF res.throws THEN Null
    ELSE LET price == Number(res.lastPrice)
         IN  IF isNaN(price) THEN Null ELSE price

usable_Truthy(rate) == truthy(rate)

\* if (rate && rate > 0)
usable(rate) == truthy(rate) /\ positive(rate)

\* cache.get: the value, or undefined when absent or past its time
get(entry, t) ==
    IF entry.present /\ ~(entry.expires < t) THEN entry.value ELSE Undefined

set_NoTTL(value, t) == [present |-> TRUE, value |-> value, expires |-> t]

\* cache.set with the standard TTL
set(value, t) == [present |-> TRUE, value |-> value, expires |-> t + stdTTL]

\* return rate: the call is over
returnRate(c, rate) ==
    /\ usdtRate' = [usdtRate EXCEPT ![c] = rate]
    /\ pc' = [pc EXCEPT ![c] = "done"]

\* cache.set(CACHE_KEY, rate); return rate
resolve(c, rate) ==
    /\ cache' = set(rate, now)
    /\ resolved' = Append(resolved, [value |-> rate, at |-> now])
    /\ returnRate(c, rate)

\* getUsdtRate up to its first await: the cached rate, or the first provider
getUsdtRate(c) ==
    /\ pc[c] \in {"idle", "done"}
    /\ \A q \in Req : q < c => InFlight(q)
    /\ started < MaxRequests
    /\ started' = started + 1
    /\ overlapped' = (overlapped \/ \E q \in Req : InFlight(q))
    /\ outcomes' = [outcomes EXCEPT ![c] = <<>>]
    /\ LET cached == get(cache, now)
       IN  IF truthy(cached)
           THEN returnRate(c, cached)
           ELSE /\ pc' = [pc EXCEPT ![c] = "exir"]
                /\ usdtRate' = [usdtRate EXCEPT ![c] = Undefined]
    /\ UNCHANGED <<cache, now, resolved, served, arg, toggled, dbOther, legacy, result>>
    /\ UNCHANGED <<db, priceCache, kind, body, doc, loaded, seen, session, response,
                   ackBalance, ackAmount, acked, appended, errors>>

\* the first turn of the loop: fetchFromExir settles
awaitExir(c) ==
    /\ pc[c] = "exir"
    /\ \E res \in ExirResponses :
          LET rate == fetchFromExir(res)
          IN  /\ outcomes' = [outcomes EXCEPT ![c] = Append(@, rate)]
              /\ IF usable(rate)
                 THEN resolve(c, rate)
                 ELSE /\ pc' = [pc EXCEPT ![c] = "wallex"]
                      /\ UNCHANGED <<cache, resolved, usdtRate>>
    /\ UNCHANGED <<now, served, arg, toggled, dbOther, legacy, result, started, overlapped>>
    /\ UNCHANGED <<db, priceCache, kind, body, doc, loaded, seen, session, response,
                   ackBalance, ackAmount, acked, appended, errors>>

\* the second turn: fetchFromWallex settles; after the loop, the fallback
awaitWallex(c) ==
    /\ pc[c] = "wallex"
    /\ \E res \in WallexResponses :
          LET rate == fetchFromWallex(res)
          IN  /\ outcomes' = [outcomes EXCEPT ![c] = Append(@, rate)]
              /\ IF usable(rate)
                 THEN resolve(c, rate)
                 ELSE resolve(c, Num(fallback))
    /\ UNCHANGED <<now, served, arg, toggled, dbOther, legacy, result, started, overlapped>>
    /\ UNCHANGED <<db, priceCache, kind, body, doc, loaded, seen, session, response,
                   ackBalance, ackAmount, acked, appended, errors>>

\* time passes
tick ==
    /\ now + TimeStep <= MaxTime
    /\ now' = now + TimeStep
    /\ UNCHANGED <<cache, outcomes, resolved, usdtRate, served, arg, toggled, dbOther, legacy, result>>
    /\ UNCHANGED <<db, priceCache, pc, kind, body, doc, loaded, seen, session,
                   response, started, overlapped, ackBalance, ackAmount, acked,
                   appended, errors>>

NextRate ==
    \/ \E c \in Req :
          \/ getUsdtRate(c)
          \/ awaitExir(c)
          \/ awaitWallex(c)
    \/ tick

SpecRate == Init /\ [][NextRate]_vars

\* ------------------------------------------------------------ getPortfolio
\* Amounts of money in the valuation are fixed-point numbers: an integer n
\* stands for n / Scale.
Scale == 1000
initialBalance == 10000

fixed(n) == n * Scale

\* Math.round of x / step, times step: the nearest multiple, halves upwards
roundTo(x, step) == step * ((2 * x + step) \div (2 * step))

\* Math.round(value * 100) / 100
formatCurrency(value) == roundTo(value, Scale \div 100)

\* Math.round(value)
MathRound(value) == roundTo(value, Scale)

\* stats.lastPrice of a listed market is a string
LastPrices == {"n/a", "0.5", "2.006"}

parseFloat(str) ==
    CASE str = "0.5" -> Num(Scale \div 2)
      [] str = "2.006" -> Num(fixed(2) + 6)
      [] OTHER -> NaN

\* GET /oldmarkets: per base asset its lastPrice, or that it is not listed
Markets == [Symbols -> LastPrices \cup {"absent"}]

\* getAllMarketPrices and the lookup of getMultiplePrices: market || null
getMultiplePrices(markets, coins) ==
    [c \in coins |->
        IF markets[toUpperCase(c)] = "absent" THEN Null
        ELSE [tag |-> "object", v |-> 0,
              lastPrice |-> parseFloat(markets[toUpperCase(c)])]]

\* marketInfo?.lastPrice || 0
currentPrice(marketInfo) ==
    IF marketInfo.tag = "object" THEN or(marketInfo.lastPrice, Num(0))
    ELSE Num(0)

\* asset.amount * currentPrice
valueOf(asset, marketPrices) ==
    asset.amount * currentPrice(marketPrices[asset.coin]).v

RECURSIVE totalAssetsValue(_, _)
\* totalAssetsValueTMN after the map over the lots
totalAssetsValue(assets, marketPrices) ==
    IF assets = <<>> THEN 0
    ELSE valueOf(Head(assets), marketPrices)
         + totalAssetsValue(Tail(assets), marketPrices)

totalCashInToman_NoRate(user, rate) ==
    fixed(user.balance["tmn"]) + fixed(user.balance["usdt"])

\* user.wallet.balance.tmn + user.wallet.balance.usdt * usdtRate
totalCashInToman(user, rate) ==
    fixed(user.balance["tmn"]) + user.balance["usdt"] * fixed(rate.v)

\* (mutant) the baseline is the opening toman balance of the user
profitLoss_Opening(totalValue) == totalValue - fixed(OpeningTMN)

\* totalValueTMN - initialBalance
profitLoss(totalValue) == totalValue - fixed(initialBalance)

\* A percentage is a fixed-point number of its own: an integer n stands for
\* n / PercentScale.
PercentScale == 100 * Scale

\* (profitLoss / initialBalance) * 100
profitLossPercentage(amount) ==
    amount * ((100 * PercentScale) \div fixed(initialBalance))

\* Math.round(value * 100) / 100 of a percentage
formatPercentage(value) == roundTo(value, PercentScale \div 100)

\* portfolioData of a wallet without lots
cashPortfolio(user, rate) ==
    LET cash == totalCashInToman(user, rate)
    IN  [tag |-> "object", v |-> 0,
         totalValue |-> cash,
         cashBalance |-> cash,
         assetsValue |-> 0,
         assets |-> <<>>,
         profitLoss |-> profitLoss(cash),
         profitLossPercentage |-> profitLossPercentage(profitLoss(cash)),
         totalTransactions |-> Len(user.transactions),
         balanceBreakdown |-> user.balance,
         usdtToToman |-> rate]

\* portfolioData of a wallet with lots
assetsPortfolio(user, rate, marketPrices) ==
    LET cash == totalCashInToman(user, rate)
        totalAssetsValueTMN == totalAssetsValue(user.assets, marketPrices)
        totalValueTMN == cash + totalAssetsValueTMN
    IN  [tag |-> "object", v |-> 0,
         totalValue |-> formatCurrency(totalValueTMN),
         cashBalance |-> formatCurrency(cash),
         assetsValue |-> formatCurrency(totalAssetsValueTMN),
         assets |-> [i \in 1..Len(user.assets) |->
                        [coin |-> user.assets[i].coin,
                         amount |-> user.assets[i].amount,
                         marketInfo |-> marketPrices[user.assets[i].coin],
                         valueInToman |->
                             MathRound(valueOf(user.assets[i],
                                               marketPrices))]],
         profitLoss |-> formatCurrency(profitLoss(totalValueTMN)),
         profitLossPercentage |->
             formatPercentage(profitLossPercentage(profitLoss(totalValueTMN))),
         totalTransactions |-> Len(user.transactions),
         balanceBreakdown |-> user.balance,
         usdtToToman |-> rate]

\* the trades of this scenario: one unit at one toman
TradeBodies == [coin : Coins, amount : {1}, price : {1}, currency : {"TMN"}]

authTrade(r) == \E t \in Types, b \in TradeBodies : receive(r, t, b)

\* GET /me/portfolio passes auth
authPortfolio(r) == receive(r, "portfolio", NoBody)

\* priceCache.set(cacheKey, portfolioData); res.json
answer(r, portfolioData, fresh) ==
    /\ priceCache' = IF fresh
                     THEN priceCacheSet(priceCache, cacheKey(doc[r]),
                                        portfolioData, now)
                     ELSE priceCache
    /\ served' = [served EXCEPT ![r] = portfolioData]
    /\ finish(r, "Success")
    /\ UNCHANGED <<session, errors>>

\* getPortfolio up to its first await: the cached data, or getUsdtRate
getPortfolio(r) ==
    /\ pc[r] = "handler" /\ kind[r] = "portfolio"
    /\ LET portfolioData == priceCacheGet(priceCache, cacheKey(doc[r]), now)
       IN  IF truthy(portfolioData)
           THEN answer(r, portfolioData, FALSE)
           ELSE /\ pc' = [pc EXCEPT ![r] = "rate"]
                /\ UNCHANGED <<priceCache, served, response, kind, body, doc,
                               loaded, seen, session, errors>>
    /\ UNCHANGED <<db, started, overlapped, ackBalance, ackAmount, acked,
                   appended, cache, now, outcomes, resolved, usdtRate, arg, toggled, dbOther, legacy,
                   result>>

\* here the exir ticker answers 5 or fails, and wallex fails
PortfolioExir == {Thrown, [throws |-> FALSE, open |-> Num(5), last |-> Num(5)]}

PortfolioWallex == {[throws |-> TRUE, lastPrice |-> Undefined]}

\* await getUsdtRate(), taken in one step (the rate cache is all it shares),
\* then the valuation of a wallet without lots, or getMultiplePrices
portfolioRate(r) ==
    /\ pc[r] = "rate"
    /\ \E e \in PortfolioExir, w \in PortfolioWallex :
          LET cached == get(cache, now)
              fromExir == fetchFromExir(e)
              fromWallex == fetchFromWallex(w)
              rate == IF truthy(cached) THEN cached
                      ELSE IF usable(fromExir) THEN fromExir
                      ELSE IF usable(fromWallex) THEN fromWallex
                      ELSE Num(fallback)
          IN  /\ outcomes' = [outcomes EXCEPT
                                ![r] = IF truthy(cached) THEN <<>>
                                       ELSE IF usable(fromExir)
                                       THEN <<fromExir>>
                                       ELSE <<fromExir, fromWallex>>]
              /\ IF truthy(cached)
                 THEN UNCHANGED <<cache, resolved>>
                 ELSE /\ cache' = set(rate, now)
                      /\ resolved' = Append(resolved,
                                            [value |-> rate, at |-> now])
              /\ usdtRate' = [usdtRate EXCEPT ![r] = rate]
              /\ IF doc[r].assets = <<>>
                 THEN answer(r, cashPortfolio(doc[r], rate), TRUE)
                 ELSE /\ pc' = [pc EXCEPT ![r] = "prices"]
                      /\ UNCHANGED <<priceCache, served, response, kind, body,
                                     doc, loaded, seen, session, errors>>
    /\ UNCHANGED <<db, started, overlapped, ackBalance, ackAmount, acked,
                   appended, now, arg, toggled, dbOther, legacy, result>>

\* await customApiService.getMultiplePrices(coins): it rethrows what the
\* fetch of the markets threw, and the catch of getPortfolio answers 500;
\* otherwise the valuation of the lots
portfolioPrices(r) ==
    /\ pc[r] = "prices"
    /\ \/ /\ errors' = errors + 1
          /\ finish(r, "ServerError")
          /\ UNCHANGED <<priceCache, served, session>>
       \/ \E markets \in Markets :
             LET coins == {doc[r].assets[i].coin :
                              i \in 1..Len(doc[r].assets)}
                 marketPrices == getMultiplePrices(markets, coins)
             IN  answer(r, assetsPortfolio(doc[r], usdtRate[r], marketPrices),
                        TRUE)
    /\ UNCHANGED <<db, started, overlapped, ackBalance, ackAmount, acked,
                   appended, cache, now, outcomes, resolved, usdtRate, arg, toggled, dbOther, legacy,
                   result>>

NextPortfolio ==
    \E r \in Req :
        \/ authTrade(r)
        \/ authPortfolio(r)
        \/ buyCrypto(r)
        \/ sellCrypto(r)
        \/ operation(r)
        \/ sessionSave(r)
        \/ commitTransaction(r)
        \/ respond(r)
        \/ getPortfolio(r)
        \/ portfolioRate(r)
        \/ portfolioPrices(r)

SpecPortfolio == Init /\ [][NextPortfolio]_vars

\* ------------------------------------------- portfolios of two users, time
\* GET /me/portfolio with the token of the second user
authOther(r) == receiveAs(r, "portfolio", NoBody, dbOther)

NextCache ==
    \/ \E r \in Req :
          \/ authTrade(r)
          \/ authPortfolio(r)
          \/ authOther(r)
          \/ buyCrypto(r)
          \/ sellCrypto(r)
          \/ operation(r)
          \/ sessionSave(r)
          \/ commitTransaction(r)
          \/ respond(r)
          \/ getPortfolio(r)
          \/ portfolioRate(r)
          \/ portfolioPrices(r)
    \/ tick

SpecCache == Init /\ [][NextCache]_vars

\* ------------------------------------------- one coin in three letter cases
CaseBodies ==
    [coin : {"eth", "Eth", "ETH"}, amount : {1}, price : {1},
     currency : {"TMN"}]

authCase(r) == \E t \in Types, b \in CaseBodies : receive(r, t, b)

NextCase ==
    \E r \in Req :
        \/ authCase(r)
        \/ buyCrypto(r)
        \/ sellCrypto(r)
        \/ operation(r)
        \/ sessionSave(r)
        \/ commitTransaction(r)
        \/ respond(r)

SpecCase == Init /\ [][NextCase]_vars

\* ------------------------------------------------- malformed trade intents
\* req.body of a trade whose amount, price or currency may be malformed,
\* next to portfolio requests that fill the portfolio cache
RejectBodies ==
    [coin : {"BTC"}, amount : {-1, 0, 1}, price : {-1, 0, 1},
     currency : {"TMN", "EUR"}]

authReject(r) == \E t \in Types, b \in RejectBodies : receive(r, t, b)

NextReject ==
    \E r \in Req :
        \/ authReject(r)
        \/ authPortfolio(r)
        \/ buyCrypto(r)
        \/ sellCrypto(r)
        \/ operation(r)
        \/ sessionSave(r)
        \/ commitTransaction(r)
        \/ respond(r)
        \/ getPortfolio(r)
        \/ portfolioRate(r)
        \/ portfolioPrices(r)

SpecReject == Init /\ [][NextReject]_vars

\* ----------------------------------------- toggleLikeCoin, toggleBookmarkCoin
ToggleKinds == {"like", "bookmark"}

\* req.body of a toggle: the user to toggle for and the coin ("" is falsy)
ToggleBodies == [userId : {"user", "nobody"}, coin : {"", "BTC", "eth"}]

\* the trades next to the toggles: one unit at one unit of either currency
ToggleTrades == [coin : Coins, amount : {1}, price : {1},
                 currency : Currencies]

\* Array.prototype.includes
includes(list, coin) == \E i \in 1..Len(list) : list[i] = coin

toggle_Push(list, coin) == Append(list, coin)

\* filter((c) => c !== coin) when the coin is included, push(coin) otherwise
toggle(list, coin) ==
    IF includes(list, coin)
    THEN LET other(c) == c # coin IN SelectSeq(list, other)
    ELSE Append(list, coin)

\* the document after the toggle of the handler
toggleOf(user, k, coin) ==
    IF k = "like"
    THEN [user EXCEPT !.likedCoins = toggle(@, coin)]
    ELSE [user EXCEPT !.bookmarkedCoins = toggle(@, coin)]

members(list) == {list[i] : i \in 1..Len(list)}

authTradeToggle(r) == \E t \in Types, b \in ToggleTrades : receive(r, t, b)

\* POST /coin/like, /coin/bookmark pass auth
authToggle(r) == \E k \in ToggleKinds, b \in ToggleBodies : receive(r, k, b)

\* User.findById(userId): the stored document, or null
findById(userId) ==
    CASE userId = "user" -> db
      [] userId = "other" -> dbOther
      [] OTHER -> Null

\* the handler up to the return of User.findById(req.body.userId)
toggleCoin(r) ==
    /\ pc[r] = "handler" /\ kind[r] \in ToggleKinds
    /\ IF body[r].coin = "" THEN reject(r, "BadRequest")
       ELSE IF findById(body[r].userId) = Null THEN reject(r, "NotFound")
       ELSE /\ doc' = [doc EXCEPT ![r] = findById(body[r].userId)]
            /\ loaded' = [loaded EXCEPT ![r] = findById(body[r].userId)]
            /\ pc' = [pc EXCEPT ![r] = "toggleSave"]
            /\ UNCHANGED <<response, kind, body, seen, session, errors>>
    /\ UNCHANGED <<db, priceCache, started, overlapped, ackBalance, ackAmount,
                   acked, appended>>
    /\ UNCHANGED aux

\* the toggle of the list, await user.save(), res.json; or the catch
toggleSave(r) ==
    /\ pc[r] = "toggleSave"
    /\ LET after == toggleOf(doc[r], kind[r], body[r].coin)
       IN  \/ /\ IF doc[r].id = "user"
                 THEN /\ db' = save(db, doc[r], after)
                      /\ toggled' =
                             [kind |-> kind[r], coin |-> body[r].coin,
                              liked |-> members(db.likedCoins),
                              bookmarked |-> members(db.bookmarkedCoins),
                              twice |-> toggled.kind = kind[r]
                                            /\ toggled.coin = body[r].coin,
                              behind |-> doc[r].transactions # db.transactions]
                      /\ dbOther' = dbOther
                 ELSE /\ dbOther' = save(dbOther, doc[r], after)
                      /\ UNCHANGED <<db, toggled>>
              /\ legacy' = legacy
              /\ finish(r, "Success")
              /\ UNCHANGED <<session, errors>>
           \/ /\ errors' = errors + 1
              /\ finish(r, "ServerError")
              /\ UNCHANGED <<db, toggled, dbOther, legacy, session>>
    /\ UNCHANGED <<priceCache, started, overlapped, ackBalance, ackAmount,
                   acked, appended, cache, now, outcomes, resolved, usdtRate,
                   served, arg, result>>

NextToggle ==
    \E r \in Req :
        \/ authTradeToggle(r)
        \/ authToggle(r)
        \/ buyCrypto(r)
        \/ sellCrypto(r)
        \/ operation(r)
        \/ sessionSave(r)
        \/ commitTransaction(r)
        \/ respond(r)
        \/ toggleCoin(r)
        \/ toggleSave(r)

SpecToggle == Init /\ [][NextToggle]_vars

\* --------------------------------------------- toggles that name a user
\* req.body of a toggle that names the first or the second user
OwnerBodies == [userId : {"user", "other"}, coin : {"BTC", "eth"}]

\* POST /coin/like, /coin/bookmark pass auth with the token of the first user
authOwner(r) == \E k \in ToggleKinds, b \in OwnerBodies : receive(r, k, b)

NextOwner ==
    \E r \in Req :
        \/ authOwner(r)
        \/ toggleCoin(r)
        \/ toggleSave(r)

SpecOwner == Init /\ [][NextOwner]_vars

\* ---------------------------------------------------- calculateSuccessRate
MaxLog == 3

\* the logs of at most MaxLog trades; the date of a record is its position
Records(i) == [coin : Symbols, amount : {1}, price : 1..MaxPrice,
               type : Types, currency : {"TMN"}, date : {i}]

Logs ==
    UNION {{log \in [1..n -> UNION {Records(i) : i \in 1..n}] :
               \A i \in 1..n : log[i].date = i} : n \in 0..MaxLog}

RECURSIVE sumPrices(_)
\* reduce((sum, b) => sum + b.price, 0)
sumPrices(txs) ==
    IF txs = <<>> THEN 0 ELSE Head(txs).price + sumPrices(Tail(txs))

\* the filter of calculateSuccessRate; t.price > sum / length is compared
\* without the division
profitable(transactions, t) ==
    IF t.type # "sell" THEN FALSE
    ELSE LET earlierBuy(b) ==
                 b.coin = t.coin /\ b.type = "buy" /\ b.date < t.date
             buyTransactions == SelectSeq(transactions, earlierBuy)
         IN  IF Len(buyTransactions) = 0 THEN FALSE
             ELSE t.price * Len(buyTransactions) > sumPrices(buyTransactions)

\* `${x.toFixed(2)}%` for x = 100 * p / n: the text of a percentage with
\* two decimals, held as its count of hundredths
toFixed2(p, n) ==
    [tag |-> "string", v |-> (20000 * p + n) \div (2 * n), decimals |-> 2]

\* transactions.length
denominator(transactions) == Len(transactions)

calculateSuccessRate(transactions) ==
    IF Len(transactions) = 0
    THEN [tag |-> "string", v |-> 0, decimals |-> 0]
    ELSE LET isProfitable(t) == profitable(transactions, t)
             profitableTrades == Len(SelectSeq(transactions, isProfitable))
         IN  toFixed2(profitableTrades, denominator(transactions))

\* everything but the projection stands still
Still ==
    UNCHANGED <<db, priceCache, pc, kind, body, doc, loaded, session, response,
                started, overlapped, ackBalance, ackAmount, acked, seen,
                appended, errors, cache, now, outcomes, resolved, usdtRate,
                served, arg, toggled, dbOther, legacy>>

InitSuccessRate ==
    /\ InitWallet
    /\ arg \in Logs
    /\ result = Undefined

successRate ==
    /\ result = Undefined
    /\ result' = calculateSuccessRate(arg)
    /\ Still

NextSuccessRate == successRate

SpecSuccessRate == InitSuccessRate /\ [][NextSuccessRate]_vars

\* ---------------------------------------------------------- getTransactions
\* req.query: page and limit are absent, a numeral or another string (the
\* numeral of limit may have a fractional part: "1.5");
\* type and coin are absent (the empty sequence) or one string
Queries ==
    [page : {Undefined, Text, Numeral(0), Numeral(1), Numeral(2)},
     limit : {Undefined, Text, Numeral(0), Numeral(1), Numeral(2), Decimal(3)},
     type : {<<>>, <<"buy">>, <<"sell">>, <<"hold">>},
     coin : {<<>>, <<"">>, <<"eth">>, <<"BTC">>}]

\* val ?? d
nullish(val, d) == IF val.tag \in {"undefined", "null"} THEN d ELSE val

\* twice a number: the arithmetic on limit is done in halves
halves(x) == IF x.tag = "fraction" THEN x.v ELSE 2 * x.v

\* paginationSchema.safeParse(req.query).success; z.number() takes any
\* number but NaN
paginationSchema(query) ==
    LET page == Number(nullish(query.page, Num(1)))
        limit == Number(nullish(query.limit, Num(10)))
    IN  /\ page.tag = "number" /\ page.v >= 1
        /\ limit.tag \in {"number", "fraction"}
        /\ halves(limit) >= 2 /\ halves(limit) <= 200
        /\ query.type = <<>> \/ query.type[1] \in {"buy", "sell"}

\* ToIntegerOrInfinity of a number >= 0 given in halves
ToInteger(h) == h \div 2

\* Array.prototype.slice(startIndex, endIndex)
slice(array, startIndex, endIndex) ==
    SubSeq(array, startIndex + 1,
           IF endIndex < Len(array) THEN endIndex ELSE Len(array))

\* Array.prototype.reverse
reverse(array) == [i \in 1..Len(array) |-> array[Len(array) + 1 - i]]

RECURSIVE volume(_)
\* reduce((total, t) => total + t.amount * t.price, 0)
volume(txs) ==
    IF txs = <<>> THEN 0
    ELSE Head(txs).amount * Head(txs).price + volume(Tail(txs))

filtered_TypeOnly(userTransactions, query) ==
    LET ofType(t) == t.type = query.type[1]
    IN  IF query.type # <<>>
        THEN SelectSeq(userTransactions, ofType)
        ELSE userTransactions

\* the filters of getTransactions
filtered(userTransactions, query) ==
    LET ofType(t) == t.type = query.type[1]
        ofCoin(t) == toUpperCase(t.coin) = toUpperCase(query.coin[1])
        byType == IF query.type # <<>>
                  THEN SelectSeq(userTransactions, ofType)
                  ELSE userTransactions
    IN  IF query.coin # <<>> /\ query.coin[1] # ""
        THEN SelectSeq(byType, ofCoin)
        ELSE byType

\* what getTransactions answers (limit, startIndex and endIndex in halves)
getTransactions(userTransactions, query) ==
    IF ~paginationSchema(query)
    THEN [tag |-> "object", v |-> 0, status |-> 400]
    ELSE LET page == Number(nullish(query.page, Num(1))).v
             limit == halves(Number(nullish(query.limit, Num(10))))
             transactions == filtered(userTransactions, query)
             startIndex == (page - 1) * limit
             endIndex == startIndex + limit
             paginatedTransactions == slice(transactions, ToInteger(startIndex),
                                            ToInteger(endIndex))
             isBuy(t) == t.type = "buy"
             isSell(t) == t.type = "sell"
         IN  [tag |-> "object", v |-> 0, status |-> 200,
              transactions |-> reverse(paginatedTransactions),
              currentPage |-> page,
              totalPages |-> (2 * Len(transactions) + limit - 1) \div limit,
              totalTransactions |-> Len(transactions),
              hasNext |-> endIndex < 2 * Len(transactions),
              hasPrev |-> startIndex > 0,
              totalBuy |-> Len(SelectSeq(transactions, isBuy)),
              totalSell |-> Len(SelectSeq(transactions, isSell)),
              totalVolume |-> volume(transactions)]

InitTransactions ==
    /\ InitWallet
    /\ arg \in [log : Logs, query : Queries]
    /\ result = Undefined

transactionsRequest ==
    /\ result = Undefined
    /\ result' = getTransactions(arg.log, arg.query)
    /\ Still

NextTransactions == transactionsRequest

SpecTransactions == InitTransactions /\ [][NextTransactions]_vars

\* ------------------------------------- the read routes next to the trades
\* req.query of GET /me/transactions in this scenario
ReadQueries ==
    {[page |-> Undefined, limit |-> Numeral(2), type |-> <<>>, coin |-> <<>>],
     [page |-> Numeral(2), limit |-> Numeral(1), type |-> <<"buy">>,
      coin |-> <<>>],
     [page |-> Numeral(0), limit |-> Undefined, type |-> <<>>, coin |-> <<>>]}

authTransactions(r) == \E q \in ReadQueries : receive(r, "transactions", q)

authAnalytics(r) == receive(r, "analytics", NoBody)

\* (mutant) the log of the document itself is reversed
listed_InPlace(user, query) == [user EXCEPT !.transactions = reverse(@)]

\* req.user after getTransactions: filter and slice work on the copy
\* [...userTransactions], and reverse() on the slice of it
listed(user, query) == user

\* what getAnalytics answers from the log and the lots (the figures that
\* depend on the clock are left out)
getAnalytics(user) ==
    LET isBuy(t) == t.type = "buy"
        isSell(t) == t.type = "sell"
    IN  [tag |-> "object", v |-> 0, status |-> 200,
         total |-> Len(user.transactions),
         buyCount |-> Len(SelectSeq(user.transactions, isBuy)),
         sellCount |-> Len(SelectSeq(user.transactions, isSell)),
         totalVolume |-> volume(user.transactions),
         diversity |-> Len(user.assets)]

\* the handler of a read route up to res.json
compute(r, data, user) ==
    /\ served' = [served EXCEPT ![r] = data]
    /\ doc' = [doc EXCEPT ![r] = user]
    /\ pc' = [pc EXCEPT ![r] = "json"]
    /\ UNCHANGED <<db, priceCache, kind, body, loaded, session, response,
                   started, overlapped, ackBalance, ackAmount, acked, seen,
                   appended, errors, cache, now, outcomes, resolved, usdtRate,
                   toggled, dbOther, legacy, arg, result>>

transactionsRoute(r) ==
    /\ pc[r] = "handler" /\ kind[r] = "transactions"
    /\ compute(r, getTransactions(doc[r].transactions, body[r]),
               listed(doc[r], body[r]))

analyticsRoute(r) ==
    /\ pc[r] = "handler" /\ kind[r] = "analytics"
    /\ compute(r, getAnalytics(doc[r]), doc[r])

\* res.json, or res.status(400).json
json(r) ==
    /\ pc[r] = "json"
    /\ finish(r, IF served[r].status = 200 THEN "Success" ELSE "BadRequest")
    /\ UNCHANGED <<db, priceCache, session, started, overlapped, ackBalance,
                   ackAmount, acked, appended, errors>>
    /\ UNCHANGED aux

NextRead ==
    \E r \in Req :
        \/ authTrade(r)
        \/ authPortfolio(r)
        \/ authTransactions(r)
        \/ authAnalytics(r)
        \/ buyCrypto(r)
        \/ sellCrypto(r)
        \/ operation(r)
        \/ sessionSave(r)
        \/ commitTransaction(r)
        \/ respond(r)
        \/ getPortfolio(r)
        \/ portfolioRate(r)
        \/ portfolioPrices(r)
        \/ transactionsRoute(r)
        \/ analyticsRoute(r)
        \/ json(r)

SpecRead == Init /\ [][NextRead]_vars

\* ----------------------------------------------------- views of the ledger
Quiescent == \A r \in Req : ~InFlight(r)

RECURSIVE SumAmounts(_, _)
\* the amount held for a symbol: the sum over its lots
SumAmounts(assets, s) ==
    IF assets = <<>> THEN 0
    ELSE (IF Head(assets).coin = s THEN Head(assets).amount ELSE 0)
         + SumAmounts(Tail(assets), s)

RECURSIVE LogAmount(_, _)
\* amount bought minus amount sold of a symbol according to the log
LogAmount(log, s) ==
    IF log = <<>> THEN 0
    ELSE (IF Head(log).coin # s THEN 0
          ELSE IF Head(log).type = "buy" THEN Head(log).amount
          ELSE 0 - Head(log).amount)
         + LogAmount(Tail(log), s)

RECURSIVE LogBalance(_, _)
\* proceeds of the logged sells minus cost of the logged buys in a currency
LogBalance(log, k) ==
    IF log = <<>> THEN 0
    ELSE (IF toLowerCase(Head(log).currency) # k THEN 0
          ELSE IF Head(log).type = "buy"
          THEN 0 - Head(log).amount * Head(log).price
          ELSE Head(log).amount * Head(log).price)
         + LogBalance(Tail(log), k)

IsPrefix(s, t) == Len(s) <= Len(t) /\ SubSeq(t, 1, Len(s)) = s

ValidBody(b) == b.amount > 0 /\ b.price > 0 /\ b.currency \in Currencies

Rejections == {"BadRequest", "InsufficientFunds", "InsufficientHoldings"}

\* the request leaves the handler in this step
Leaves(r) == pc[r] = "handler" /\ pc'[r] # "handler"

\* ------------------------------------- the single-balance generation
\* request bodies of the single-balance routes (amount 0 is malformed)
LegacyBodies == [coin : Coins, amount : 0..LegacyAmount, price : 1..MaxPrice]

\* zod of the single-balance controller: positive numbers, no currency
legacyTransactionSchema(b) ==
    /\ b.amount > 0 /\ b.amount <= 1000000
    /\ b.price > 0

\* the in-memory effect of the single-balance addTransaction, before its save
legacyAddTransaction(d, tx) ==
    LET i == find(d.wallet.assets, tx.coin)
        pushed == [d EXCEPT !.transactions = Append(@, tx)]
    IN  IF tx.type = "buy" THEN
            [pushed EXCEPT
               !.wallet.balance = @ - tx.price * tx.amount,
               !.wallet.assets =
                   IF i # 0
                   THEN [@ EXCEPT ![i].amount = @ + tx.amount]
                   ELSE Append(@, [coin |-> tx.coin, amount |-> tx.amount])]
        ELSE IF tx.type = "sell" THEN
            [pushed EXCEPT
               !.wallet.balance = @ + tx.price * tx.amount,
               !.wallet.assets =
                   IF i # 0
                   THEN [@ EXCEPT ![i].amount = @ - tx.amount]
                   ELSE @]
        ELSE pushed

\* the operation of buyCrypto: the controller debits the balance and raises
\* the lot, then calls addTransaction on the same document
legacyBuy(d, b) ==
    LET normalizedCoin == toUpperCase(b.coin)
        totalCost == b.amount * b.price
        i == find(d.wallet.assets, normalizedCoin)
        debited ==
            [d EXCEPT
               !.wallet.balance = @ - totalCost,
               !.wallet.assets =
                   IF i # 0
                   THEN [@ EXCEPT ![i].amount = @ + b.amount]
                   ELSE Append(@, [coin |-> normalizedCoin,
                                   amount |-> b.amount])]
    IN  legacyAddTransaction(debited,
                             [coin |-> normalizedCoin, amount |-> b.amount,
                              price |-> b.price, type |-> "buy"])

\* the operation of sellCrypto: the controller lowers the lot, credits the
\* balance and removes a lot that is used up, then calls addTransaction
legacySell(d, b) ==
    LET normalizedCoin == toUpperCase(b.coin)
        i == find(d.wallet.assets, normalizedCoin)
        lowered ==
            [d EXCEPT
               !.wallet.balance = @ + b.amount * b.price,
               !.wallet.assets[i].amount = @ - b.amount]
        other(a) == a.coin # normalizedCoin
        credited ==
            IF lowered.wallet.assets[i].amount <= 0
            THEN [lowered EXCEPT !.wallet.assets = SelectSeq(@, other)]
            ELSE lowered
    IN  legacyAddTransaction(credited,
                             [coin |-> normalizedCoin, amount |-> b.amount,
                              price |-> b.price, type |-> "sell"])

\* the request is answered; requests of this generation run one at a time
legacyAnswer(status) ==
    /\ started < MaxRequests
    /\ started' = started + 1
    /\ response' = [response EXCEPT ![1] = status]
    /\ UNCHANGED <<db, pc, kind, body, doc, loaded, session, overlapped,
                   ackBalance, ackAmount, acked, seen, appended, cache, now,
                   outcomes, resolved, usdtRate, served, toggled, dbOther,
                   arg, result>>

\* executeWithTransaction and what follows it.  The write is the save inside
\* addTransaction; when a later step of the transaction is rejected the
\* handler answers 500 after that save.
legacyExecute(after) ==
    \/ /\ legacy' = after
       /\ priceCache' = priceCacheDel(priceCache, cacheKey(registered))
       /\ errors' = errors
       /\ legacyAnswer("Success")
    \/ /\ legacy' \in {legacy, after}
       /\ errors' = errors + 1
       /\ priceCache' = priceCache
       /\ legacyAnswer("ServerError")

\* POST /buy of the single-balance controller, from validation to answer
legacyBuyCrypto(b) ==
    IF ~legacyTransactionSchema(b)
    THEN legacyAnswer("BadRequest") /\ UNCHANGED <<legacy, priceCache, errors>>
    ELSE IF legacy.wallet.balance < b.amount * b.price
    THEN /\ legacyAnswer("InsufficientFunds")
         /\ UNCHANGED <<legacy, priceCache, errors>>
    ELSE legacyExecute(legacyBuy(legacy, b))

\* POST /sell of the single-balance controller, from validation to answer
legacySellCrypto(b) ==
    IF ~legacyTransactionSchema(b)
    THEN legacyAnswer("BadRequest") /\ UNCHANGED <<legacy, priceCache, errors>>
    ELSE LET i == find(legacy.wallet.assets, toUpperCase(b.coin))
         IN  IF i = 0 \/ legacy.wallet.assets[i].amount < b.amount
             THEN /\ legacyAnswer("InsufficientHoldings")
                  /\ UNCHANGED <<legacy, priceCache, errors>>
             ELSE legacyExecute(legacySell(legacy, b))

NextLegacy ==
    \/ \E b \in LegacyBodies : legacyBuyCrypto(b)
    \/ \E b \in LegacyBodies : legacySellCrypto(b)

SpecLegacy == Init /\ [][NextLegacy]_vars

\* ------------------------------------------------------------------ claims
\* C1: concurrent sell requests against a holding of exactly one unit: when
\* all have been answered (none by a server error), exactly one succeeded
\* and the others were rejected with InsufficientHoldings; never more than
\* one succeeds.
C1_OneSellSucceeds ==
    /\ Cardinality({r \in Req : response[r] = "Success"}) <= 1
    /\ (/\ \A r \in Req : pc[r] = "done"
        /\ errors = 0)
       => /\ Cardinality({r \in Req : response[r] = "Success"}) = 1
          /\ Cardinality({r \in Req : response[r] = "InsufficientHoldings"})
                = NumReq - 1

\* C2: a buy or sell that ends in a failure of a persistence step leaves the
\* stored balance, holdings and log as they were before the operation (here
\* for requests that run one after another, so that nobody else writes).
C2_AllOrNothing ==
    [][\A r \in Req :
          (~overlapped /\ InFlight(r) /\ pc'[r] = "done"
              /\ response'[r] = "ServerError")
          => db' = loaded[r]]_vars

\* C3: for requests executed one after another, each balance equals the
\* opening balance minus the cost of the successful buys plus the proceeds
\* of the successful sells in that currency.
C3_BalanceEquation ==
    (~overlapped /\ Quiescent)
    => \A k \in BalanceKeys :
          db.balance[k] = registered.balance[k] + ackBalance[k]

\* C4: under any interleaving, in every quiescent state (no request having
\* failed with a server error) each balance equals
\* the opening balance minus the cost of every logged buy plus the proceeds
\* of every logged sell in that currency.
C4_BalanceMatchesLog ==
    (Quiescent /\ errors = 0)
    => \A k \in BalanceKeys :
          db.balance[k] = registered.balance[k] + LogBalance(db.transactions, k)

\* C5: for requests executed one after another, the amount held for a coin
\* equals the bought minus the sold amounts of the applied trades, and
\* wallet.assets has no lot whose amount is <= 0 (no request having failed
\* with a server error).
C5_HoldingsAndNoEmptyLot ==
    (~overlapped /\ errors = 0)
    => /\ \A s \in Symbols :
             SumAmounts(db.assets, s) = LogAmount(db.transactions, s)
       /\ \A i \in 1..Len(db.assets) : db.assets[i].amount > 0

\* C6: a sell whose amount exceeds the amount held for the coin (in the
\* wallet the request read; the stored wallet when requests do not overlap),
\* or for a coin without a lot, is rejected with InsufficientHoldings, and
\* the rejection changes neither the stored document nor the cache.
C6_OversellRejected ==
    [][\A r \in Req :
          (/\ Leaves(r) /\ kind[r] = "sell" /\ ValidBody(body[r])
           /\ \/ SumAmounts(doc[r].assets, toUpperCase(body[r].coin))
                    < body[r].amount
              \/ /\ ~overlapped
                 /\ SumAmounts(db.assets, toUpperCase(body[r].coin))
                       < body[r].amount)
          => /\ response'[r] = "InsufficientHoldings"
             /\ pc'[r] = "done"
             /\ appended'[r] = 0
             /\ db' = db /\ priceCache' = priceCache]_vars

\* a sell was rejected although a lot of some coin exists
C6_Witness ==
    \E r \in Req :
        response[r] = "InsufficientHoldings" /\ db.assets # <<>>

\* C7: a buy whose cost exceeds the balance in the trade's currency is
\* rejected with InsufficientFunds whatever the other currency holds, the
\* rejection changes neither the stored document nor the cache, and no write
\* of a buy touches the balance of the other currency.
C7_OverspendRejected ==
    [][\A r \in Req :
          LET k == toLowerCase(body[r].currency)
              cost == body[r].amount * body[r].price
          IN  /\ (/\ Leaves(r) /\ kind[r] = "buy" /\ ValidBody(body[r])
                  /\ \/ doc[r].balance[k] < cost
                     \/ ~overlapped /\ db.balance[k] < cost)
                 => /\ response'[r] = "InsufficientFunds"
                    /\ pc'[r] = "done"
                    /\ appended'[r] = 0
                    /\ db' = db /\ priceCache' = priceCache
              /\ (pc[r] = "operation" /\ kind[r] = "buy" /\ pc'[r] # pc[r])
                 => \A o \in BalanceKeys \ {k} :
                       db'.balance[o] = db.balance[o]]_vars

\* a buy in USDT was rejected while the TMN balance covers any cost
C7_Witness ==
    /\ ~overlapped
    /\ \E r \in Req : response[r] = "InsufficientFunds"
    /\ db.balance["tmn"] >= MaxAmount * MaxPrice
    /\ Len(db.transactions) > 0

\* C8: the log is append-only: every step leaves it unchanged or appends one
\* record at its end; the write of a trade appends that trade's record; an
\* acknowledged trade has appended exactly one record, a rejected one none.
C8_AppendOnly ==
    [][/\ IsPrefix(db.transactions, db'.transactions)
       /\ Len(db'.transactions) <= Len(db.transactions) + 1
       /\ \A r \in Req :
             /\ (pc[r] = "operation" /\ pc'[r] = "sessionSave")
                => db'.transactions
                      = Append(db.transactions,
                               newTransaction(body[r], kind[r]))
             /\ response'[r] = "Success" => appended'[r] = 1
             /\ response'[r] \in Rejections => appended'[r] = 0]_vars

\* two requests wrote their trades while overlapping, one was acknowledged
C8_Witness ==
    /\ overlapped
    /\ Len(db.transactions) >= 2
    /\ \E r \in Req : response[r] = "Success" /\ appended[r] = 1

\* C9: every balance of the stored wallet is >= 0.
C9_BalanceNonNegative ==
    \A k \in BalanceKeys : db.balance[k] >= 0

\* interleaved buys whose logged costs together exceed the opening balance
C9_Witness ==
    /\ overlapped
    /\ \E k \in BalanceKeys :
          registered.balance[k] + LogBalance(db.transactions, k) < 0

\* C10: every lot of the stored wallet has an amount >= 0.
C10_LotNonNegative ==
    \A i \in 1..Len(db.assets) : db.assets[i].amount >= 0

\* interleaved sells that together sold more than was bought
C10_Witness ==
    /\ overlapped
    /\ \E s \in Symbols : LogAmount(db.transactions, s) < 0

\* C11: wallet.assets of the stored document holds at most one lot per coin
\* symbol, also after two buys of a not-yet-held coin ran concurrently.
C11_OneLotPerCoin ==
    \A i, j \in 1..Len(db.assets) :
        db.assets[i].coin = db.assets[j].coin => i = j

\* ------------------------------------------------- claims: rate resolver
\* a finite positive number
FinitePositive(x) == x.tag = "number" /\ x.v > 0

\* this step is the start of a call of getUsdtRate in slot c
Starts(c) ==
    /\ started' = started + 1
    /\ ~InFlight(c)
    /\ \A q \in Req : q < c => InFlight(q)

\* C14: when every provider of a call failed or yielded a value that is not
\* a finite positive number, getUsdtRate returns the fallback rate 100000.
C14_FallbackWhenAllFail ==
    [][\A c \in Req :
          (pc[c] = "wallex" /\ pc'[c] = "done"
           /\ \A i \in 1..Len(outcomes'[c]) :
                  ~FinitePositive(outcomes'[c][i]))
          => usdtRate'[c] = Num(100000)]_vars

\* C15: a call that missed the cache returns and caches the value of the
\* first provider, in the order exir then wallex, that yielded a finite
\* positive number; a value that is not one is skipped, so the next provider
\* is queried, and no provider is queried after an acceptable value.
C15_FirstFinitePositive ==
    [][\A c \in Req :
          (pc[c] \in {"exir", "wallex"} /\ pc'[c] = "done")
          => LET o == outcomes'[c]
                 last == o[Len(o)]
             IN  /\ \A i \in 1..(Len(o) - 1) : ~FinitePositive(o[i])
                 /\ FinitePositive(last)
                        => /\ usdtRate'[c] = last
                           /\ cache'.present /\ cache'.value = last
                 /\ ~FinitePositive(last) => pc[c] = "wallex"]_vars

\* C16 as stated: once a call has resolved a rate at time t, every call that
\* starts no later than t + TTL returns that rate from the cache and queries
\* no provider.
C16_Original ==
    [][\A c \in Req :
          Starts(c)
          => \A i \in 1..Len(resolved) :
                 now <= resolved[i].at + 60
                 => /\ pc'[c] = "done"
                    /\ outcomes'[c] = <<>>
                    /\ usdtRate'[c] = resolved[i].value]_vars

\* C16: every call that starts within the TTL window of the most recently
\* resolved rate (a provider value or the fallback) returns that rate from
\* the cache and queries no provider; a call that had missed the cache
\* earlier and resolves later replaces the cached rate and restarts the window.
C16_CachedWithinTTL ==
    [][\A c \in Req :
          (Starts(c) /\ resolved # <<>>
           /\ now <= resolved[Len(resolved)].at + 60)
          => /\ pc'[c] = "done"
             /\ outcomes'[c] = <<>>
             /\ usdtRate'[c] = resolved[Len(resolved)].value]_vars

\* during an outage a later call got the fallback from the cache
C16_Witness ==
    \E c \in Req :
        /\ pc[c] = "done" /\ outcomes[c] = <<>>
        /\ resolved # <<>>
        /\ resolved[Len(resolved)].value = Num(100000)
        /\ usdtRate[c] = Num(100000)
        /\ now > resolved[Len(resolved)].at

\* ---------------------------------------------------- claims: getPortfolio
\* this step acknowledges the trade of request r as successful
Acknowledges(r) ==
    kind[r] \in Types /\ InFlight(r) /\ response'[r] = "Success"

\* this step ends the getPortfolio request r
Ends(r) == kind[r] = "portfolio" /\ InFlight(r) /\ pc'[r] = "done"

\* C12: at the moment a buy or sell is acknowledged as successful, the
\* portfolio cache holds no entry for the user.
C12_InvalidatedAtAck ==
    [][\A r \in Req :
          Acknowledges(r)
          => \A e \in priceCache' : e.key # "portfolio_user"]_vars

\* a valuation had been cached, and the acknowledgement of a trade removed it
C12_Witness ==
    /\ acked > 0
    /\ priceCache = {}
    /\ \E q \in Req : served[q].tag = "object"

\* C13: a getPortfolio request received after trades were acknowledged
\* answers with a valuation of a wallet that includes them; such a wallet's
\* log has at least as many records as trades had been acknowledged when the
\* request was received.
C13_IncludesAcknowledged ==
    [][\A r \in Req :
          (Ends(r) /\ response'[r] = "Success")
          => served'[r].totalTransactions >= seen[r]]_vars

\* C17: a getPortfolio request of a valid user ends with a valuation, never
\* with an error, also when the market price fetch or the rate providers fail.
C17_AlwaysValuation ==
    [][\A r \in Req :
          Ends(r) => response'[r] = "Success" /\ served'[r].tag = "object"]_vars

\* the price the gateway has for a lot, 0 when it has none
LastPrice(lot) ==
    IF lot.marketInfo.tag = "object" /\ lot.marketInfo.lastPrice.tag = "number"
    THEN lot.marketInfo.lastPrice.v
    ELSE 0

RECURSIVE SumValues(_)
SumValues(lots) ==
    IF lots = <<>> THEN 0
    ELSE Head(lots).amount * LastPrice(Head(lots)) + SumValues(Tail(lots))

\* balance.tmn + balance.usdt * rate, in thousandths
CashValue(wallet, rate) ==
    1000 * (wallet.balance["tmn"] + wallet.balance["usdt"] * rate.v)

\* the multiple of step nearest to x, a half counting upwards
Nearest(x, step) == (x + step \div 2) - ((x + step \div 2) % step)

\* this step computes the valuation that request r answers with
Computes(r) ==
    Ends(r) /\ pc[r] \in {"rate", "prices"} /\ response'[r] = "Success"

\* C18 as stated: in a freshly computed valuation the cash value is
\* balance.tmn + balance.usdt * rate, the value of each lot is
\* lot.amount * lastPrice (0 without a price), and the total value is the cash
\* value plus the sum of the lot values.
C18_Original ==
    [][\A r \in Req :
          Computes(r)
          => LET data == served'[r]
             IN  /\ data.cashBalance = CashValue(doc[r], usdtRate'[r])
                 /\ Len(data.assets) = Len(doc[r].assets)
                 /\ \A i \in 1..Len(data.assets) :
                        data.assets[i].valueInToman
                            = doc[r].assets[i].amount
                                * LastPrice(data.assets[i])
                 /\ data.totalValue
                        = data.cashBalance + SumValues(data.assets)]_vars

\* C18: in a freshly computed valuation the cash value is
\* balance.tmn + balance.usdt * rate, the value of each lot is
\* lot.amount * lastPrice (0 without a price) and is reported rounded to the
\* nearest whole unit, and the total value is the cash value plus the sum of
\* the unrounded lot values; cash value and total are reported to two
\* decimals.  The value of a lot depends on its own amount and price only.
C18_Valuation ==
    [][\A r \in Req :
          Computes(r)
          => LET data == served'[r]
                 cash == CashValue(doc[r], usdtRate'[r])
             IN  /\ data.cashBalance = Nearest(cash, 10)
                 /\ Len(data.assets) = Len(doc[r].assets)
                 /\ \A i \in 1..Len(data.assets) :
                        data.assets[i].valueInToman
                            = Nearest(doc[r].assets[i].amount
                                        * LastPrice(data.assets[i]), 1000)
                 /\ data.totalValue
                        = Nearest(cash + SumValues(data.assets), 10)]_vars

\* a valuation of two lots, one without a price and one with a value
C18_Witness ==
    \E r \in Req :
        /\ response[r] = "Success" /\ served[r].tag = "object"
        /\ Len(served[r].assets) = 2
        /\ \E i, j \in 1..2 :
              /\ served[r].assets[i].marketInfo.tag = "null"
              /\ served[r].assets[j].valueInToman > 0

\* --------------------------------------------- claims: read-only projections
\* the sells of a log / those priced above the average price of the earlier
\* buys of their coin
Sells(log) == {i \in 1..Len(log) : log[i].type = "sell"}

EarlierBuys(log, i) ==
    {j \in 1..(i - 1) : log[j].type = "buy" /\ log[j].coin = log[i].coin}

RECURSIVE SumPrice(_, _)
SumPrice(log, js) ==
    IF js = {} THEN 0
    ELSE LET j == CHOOSE x \in js : TRUE
         IN  log[j].price + SumPrice(log, js \ {j})

ProfitableSells(log) ==
    {i \in Sells(log) :
        /\ EarlierBuys(log, i) # {}
        /\ log[i].price * Cardinality(EarlierBuys(log, i))
               > SumPrice(log, EarlierBuys(log, i))}

\* C19: for a log with a sell, the success rate is the percentage, to two
\* decimals, of the profitable sells among all sells; buys are not counted.
C19_RateOverSells ==
    (result # Undefined /\ Sells(arg) # {})
    => \E h \in 0..10000 :
          /\ result.v = h
          /\ 2 * h * Cardinality(Sells(arg))
                 <= 20000 * Cardinality(ProfitableSells(arg))
                        + Cardinality(Sells(arg))
          /\ 2 * h * Cardinality(Sells(arg))
                 > 20000 * Cardinality(ProfitableSells(arg))
                       - Cardinality(Sells(arg))

\* the records of the log that match the filters of the query
Matching(log, query) ==
    LET keep(t) ==
            /\ query.type = <<>> \/ t.type = query.type[1]
            /\ query.coin \in {<<>>, <<"">>}
                   \/ toUpperCase(t.coin) = toUpperCase(query.coin[1])
    IN  SelectSeq(log, keep)

MostRecentFirst(log) == [i \in 1..Len(log) |-> log[Len(log) + 1 - i]]

RECURSIVE Pages(_, _, _)
\* the concatenation of the pages first..last of the query's answer
Pages(a, first, last) ==
    IF first > last THEN <<>>
    ELSE getTransactions(a.log,
                         [a.query EXCEPT !.page = Numeral(first)]).transactions
         \o Pages(a, first + 1, last)

\* C20: page 1 starts with the most recently appended matching transaction,
\* and pages 1..totalPages together are the matching transactions, most
\* recent first.
C20_MostRecentFirst ==
    (result # Undefined /\ result.status = 200)
    => LET matching == Matching(arg.log, arg.query)
       IN  /\ (result.currentPage = 1 /\ matching # <<>>)
                  => Head(result.transactions) = matching[Len(matching)]
           /\ Pages(arg, 1, result.totalPages) = MostRecentFirst(matching)

\* a symbol with its letters in lower case
Fold(symbol) ==
    CASE symbol = "BTC" -> "btc"
      [] symbol = "ETH" -> "eth"
      [] OTHER -> symbol

\* the positions of the log that the filters of the query select; an absent
\* or empty parameter is no filter
Selected(log, query) ==
    {i \in 1..Len(log) :
        /\ query.type # <<>> => log[i].type = query.type[1]
        /\ (query.coin # <<>> /\ query.coin[1] # "")
               => Fold(log[i].coin) = Fold(query.coin[1])}

Range(seq) == {seq[i] : i \in 1..Len(seq)}

\* C21: the answer lists only logged transactions of the requested type and
\* of the requested coin, letter case ignored, its pages together list all of
\* them, and totalTransactions, totalBuy and totalSell count that filtered
\* set, whatever the page.
C21_FilteredSet ==
    (result # Undefined /\ result.status = 200)
    => LET selected == Selected(arg.log, arg.query)
       IN  /\ Range(result.transactions) \subseteq {arg.log[i] : i \in selected}
           /\ Range(Pages(arg, 1, result.totalPages))
                  = {arg.log[i] : i \in selected}
           /\ result.totalTransactions = Cardinality(selected)
           /\ result.totalBuy
                  = Cardinality({i \in selected : arg.log[i].type = "buy"})
           /\ result.totalSell
                  = Cardinality({i \in selected : arg.log[i].type = "sell"})

\* both filters given, they select a part of the log, and the page holds
\* fewer records than the filtered set
C21_Witness ==
    /\ result # Undefined /\ result.status = 200
    /\ arg.query.type # <<>> /\ arg.query.coin = <<"eth">>
    /\ Selected(arg.log, arg.query) # {}
    /\ Cardinality(Selected(arg.log, arg.query)) < Len(arg.log)
    /\ Len(result.transactions) < result.totalTransactions

\* ----------------------------------------------------- claims: the toggles
\* this step is the successful save of the toggle request r
Toggles(r) ==
    kind[r] \in {"like", "bookmark"} /\ InFlight(r) /\ response'[r] = "Success"

\* C22: when requests do not overlap and the same coin of the same list is
\* toggled twice in succession, both lists have after the second toggle the
\* members they had before the first, whether the coin was a member or not.
C22_ToggleTwice ==
    [][\A r \in Req :
          (Toggles(r) /\ ~overlapped
           /\ toggled.kind = kind[r] /\ toggled.coin = body[r].coin)
          => /\ Range(db'.likedCoins) = toggled.liked
             /\ Range(db'.bookmarkedCoins) = toggled.bookmarked]_vars

\* three toggles of one coin in succession: the first pair started without
\* the coin, the second pair with it
C22_Witness ==
    /\ ~overlapped /\ started = 3
    /\ toggled.twice /\ toggled.kind = "like"
    /\ toggled.coin \notin toggled.liked
    /\ toggled.coin \in Range(db.likedCoins)

\* C23: the stored likedCoins and bookmarkedCoins hold no coin twice.
C23_NoDuplicates ==
    /\ \A i, j \in 1..Len(db.likedCoins) :
           db.likedCoins[i] = db.likedCoins[j] => i = j
    /\ \A i, j \in 1..Len(db.bookmarkedCoins) :
           db.bookmarkedCoins[i] = db.bookmarkedCoins[j] => i = j

Malformed(b) ==
    b.amount <= 0 \/ b.price <= 0 \/ b.currency \notin {"TMN", "USDT"}

\* C25: the handler step of a buy or sell whose amount or price is not
\* positive, or whose currency is neither TMN nor USDT, answers 400 without
\* starting a session and leaves the stored user (balances, lots, log, lists)
\* and the portfolio cache as they were.
C25_MalformedRejected ==
    [][\A r \in Req :
          (/\ pc[r] = "handler" /\ kind[r] \in Types
           /\ Malformed(body[r]) /\ pc'[r] # pc[r])
          => /\ pc'[r] = "done" /\ response'[r] = "BadRequest"
             /\ session'[r] = session[r]
             /\ db' = db
             /\ priceCache' = priceCache]_vars

\* an unsupported currency was refused while the wallet held a lot, the log a
\* record and the portfolio cache a valuation
C25_Witness ==
    /\ \E r \in Req : pc[r] = "done" /\ response[r] = "BadRequest"
    /\ db.transactions # <<>>
    /\ truthy(priceCacheGet(priceCache, "portfolio_user", now))

\* the symbol a coin is known by, whatever the case it is written in
SymbolOf(c) == IF c \in {"eth", "Eth", "ETH"} THEN "ETH" ELSE "BTC"

\* the lots of a symbol, and the amount they hold together
LotsOf(assets, symbol) ==
    {i \in 1..Len(assets) : assets[i].coin = symbol}

RECURSIVE HeldFrom(_, _, _)
HeldFrom(assets, symbol, i) ==
    IF i > Len(assets) THEN 0
    ELSE (IF assets[i].coin = symbol THEN assets[i].amount ELSE 0)
         + HeldFrom(assets, symbol, i + 1)

Held(assets, symbol) == HeldFrom(assets, symbol, 1)

\* C26: every stored transaction record and every stored lot carries an
\* upper-case symbol; for requests that run one after the other, the write of
\* a buy or sell of a coin written in any letter case leaves exactly one lot
\* of its symbol, holding the amount before plus (buy) or minus (sell) the
\* traded amount, and a sell is refused for insufficient holdings exactly when
\* that lot holds less than the amount asked for.
C26_UpperCaseLots ==
    [][/\ \A i \in 1..Len(db'.transactions) :
              db'.transactions[i].coin \in Symbols
       /\ \A i \in 1..Len(db'.assets) : db'.assets[i].coin \in Symbols
       /\ \A r \in Req :
              LET symbol == SymbolOf(body[r].coin)
                  sign == IF kind[r] = "buy" THEN 1 ELSE -1
              IN  /\ (/\ ~overlapped /\ kind[r] \in Types
                       /\ pc[r] = "operation" /\ pc'[r] = "sessionSave")
                      => /\ Cardinality(LotsOf(db'.assets, symbol)) = 1
                         /\ Held(db'.assets, symbol)
                              = Held(db.assets, symbol) + sign * body[r].amount
                         /\ db'.transactions[Len(db'.transactions)].coin
                              = symbol
                  /\ (/\ ~overlapped /\ kind[r] = "sell"
                       /\ pc[r] = "handler" /\ pc'[r] # pc[r])
                      => (response'[r] = "InsufficientHoldings"
                            <=> Held(db.assets, symbol) < body[r].amount)]_vars

\* after two buys, a sell written in lower case has been taken from the
\* upper-case lot that holds both
C26_Witness ==
    /\ ~overlapped
    /\ \E r \in Req : /\ kind[r] = "sell" /\ body[r].coin = "eth"
                       /\ pc[r] = "sessionSave"
    /\ db.assets = <<[coin |-> "ETH", amount |-> 1]>>
    /\ Len(db.transactions) = 3

\* the percentage (in 1 / PercentScale) that an amount of money (in
\* 1 / Scale) is of the baseline of 10000
PercentOfBaseline(amount) == amount * ((100 * 100 * Scale) \div (10000 * Scale))

\* C27 as stated: in a freshly computed valuation the profit/loss is the
\* total value minus 10000, and the profit/loss percentage is the profit/loss
\* divided by 10000, times 100.
C27_Original ==
    [][\A r \in Req :
          Computes(r)
          => LET data == served'[r]
             IN  /\ data.profitLoss = data.totalValue - 10000 * Scale
                 /\ data.profitLossPercentage
                        = PercentOfBaseline(data.profitLoss)]_vars

\* C27: in a freshly computed valuation the profit/loss is the total value
\* minus 10000, whatever the opening balances of the user, and the
\* profit/loss percentage is the profit/loss divided by 10000, times 100; for
\* a wallet with lots the percentage is computed from the unrounded total and
\* reported, as the total and the profit/loss are, rounded to two decimals.
C27_ProfitLoss ==
    [][\A r \in Req :
          Computes(r)
          => LET data == served'[r]
                 total == CashValue(doc[r], usdtRate'[r])
                            + SumValues(data.assets)
             IN  /\ data.profitLoss = data.totalValue - 10000 * Scale
                 /\ IF doc[r].assets = <<>>
                    THEN /\ data.profitLoss = total - 10000 * Scale
                         /\ data.profitLossPercentage
                                = PercentOfBaseline(data.profitLoss)
                    ELSE /\ data.profitLoss
                                = Nearest(total - 10000 * Scale, 10)
                         /\ data.profitLossPercentage
                                = Nearest(PercentOfBaseline(
                                              total - 10000 * Scale),
                                          1000)]_vars

\* a valuation of a wallet with a priced lot whose percentage is not the
\* percentage of the reported profit/loss
C27_Witness ==
    \E r \in Req :
        /\ response[r] = "Success" /\ served[r].tag = "object"
        /\ served[r].assets # <<>>
        /\ served[r].assetsValue > 0
        /\ served[r].profitLossPercentage
              # PercentOfBaseline(served[r].profitLoss)

\* the next step of the write path of request r
WritePath(r) ==
    \/ buyCrypto(r) \/ sellCrypto(r) \/ operation(r)
    \/ sessionSave(r) \/ commitTransaction(r) \/ respond(r)

\* C28: no step of a buy or sell request calls the rate resolver or the
\* price gateway (the rate cache, the providers' answers, the resolved rates
\* and the valuations are left alone and the request never waits for a rate
\* or for prices), and the next step of a buy or sell in flight can be taken
\* whatever the state of the portfolio requests that wait for a rate or for
\* prices.
C28_WritePathNoPricing ==
    [][\A r \in Req :
          (kind[r] \in Types /\ InFlight(r))
          => /\ ENABLED WritePath(r)
             /\ pc'[r] # pc[r]
                => /\ pc'[r] \notin {"rate", "prices"}
                   /\ cache' = cache /\ outcomes' = outcomes
                   /\ resolved' = resolved /\ usdtRate' = usdtRate
                   /\ served' = served]_vars

\* a trade has been written and committed after a portfolio request loaded
\* the user, and that request still waits for the prices of the gateway
C28_Witness ==
    \E q, r \in Req :
        /\ kind[q] = "portfolio" /\ pc[q] = "prices"
        /\ kind[r] \in Types /\ pc[r] = "respond"
        /\ Len(db.transactions) > Len(doc[q].transactions)

\* C29: executeWithTransaction commits only after the wrapped operation has
\* completed, and then it does call commitTransaction; when the operation,
\* its save under the session or the commit fails, the transaction is aborted
\* and the error of the failed step is the one thrown to the caller; no
\* session is both committed and aborted; and a session is ended once when
\* executeWithTransaction is over and not before.
C29_SessionProtocol ==
    [][\A r \in Req :
          LET after == session'[r]
          IN  /\ ~(after.committed /\ after.aborted)
              /\ (after.committed /\ ~session[r].committed)
                 => pc[r] = "commit"
              /\ (pc[r] = "sessionSave" /\ pc'[r] \notin {"sessionSave", "done"})
                 => pc'[r] = "commit"
              /\ (pc[r] \in {"operation", "sessionSave", "commit"}
                    /\ pc'[r] = "done")
                 => /\ after.aborted /\ ~after.committed
                    /\ after.thrown = pc[r]
              /\ (pc[r] = "respond" /\ pc'[r] = "done")
                 => after.committed /\ after.thrown = "none"
              /\ (pc'[r] = "done" /\ after.started) => after.ended = 1
              /\ pc'[r] \notin {"idle", "done"} => after.ended = 0]_vars

\* the lots of the coins other than symbol, in their order
RECURSIVE OtherLots(_, _)
OtherLots(assets, symbol) ==
    IF assets = <<>> THEN <<>>
    ELSE (IF Head(assets).coin = symbol THEN <<>> ELSE <<Head(assets)>>)
         \o OtherLots(Tail(assets), symbol)

\* C30: whatever step a buy or sell request takes, its write included and
\* also when it overlaps other requests of the user, the stored balance of the
\* currency it does not trade in, the stored lots of the coins it does not
\* trade and the stored likedCoins and bookmarkedCoins stay as they are.
C30_OnlyTradedCurrency ==
    [][\A r \in Req :
          (kind[r] \in Types /\ InFlight(r) /\ pc'[r] # pc[r])
          => /\ \A k \in BalanceKeys :
                    k # toLowerCase(body[r].currency)
                    => db'.balance[k] = db.balance[k]
             /\ OtherLots(db'.assets, SymbolOf(body[r].coin))
                  = OtherLots(db.assets, SymbolOf(body[r].coin))
             /\ db'.likedCoins = db.likedCoins
             /\ db'.bookmarkedCoins = db.bookmarkedCoins]_vars

\* a buy of eth for USDT has been written and committed for a user who holds
\* a BTC lot and likes a coin
C30_Witness ==
    /\ \E r \in Req : /\ kind[r] = "buy" /\ pc[r] = "respond"
                       /\ body[r].coin = "eth" /\ body[r].currency = "USDT"
    /\ \E i \in 1..Len(db.assets) : db.assets[i].coin = "BTC"
    /\ \E i \in 1..Len(db.assets) : db.assets[i].coin = "ETH"
    /\ db.likedCoins # <<>>
    /\ db.balance["usdt"] = OpeningUSDT - 1

\* ------------------------------------------------------- claims: pagination
\* page p of the listing that the call of arg belongs to
Page(a, p) == Pages(a, p, p)

\* twice the page size asked for (10 when absent)
TwiceLimit(query) ==
    CASE query.limit.tag = "undefined" -> 20
      [] query.limit.tag = "decimal" -> query.limit.v
      [] OTHER -> 2 * query.limit.v

\* ceil(2 * n / twiceLimit)
Ceil(n, twiceLimit) ==
    CHOOSE k \in 0..(2 * n) :
        /\ k * twiceLimit >= 2 * n
        /\ \A j \in 0..(2 * n) : j * twiceLimit >= 2 * n => k <= j

\* C31: for an accepted query, pages 1..totalPages hold every matching
\* transaction exactly once, every such page holds at most limit items,
\* totalPages is ceil(matching / limit), hasNext says that a later page is
\* not empty, hasPrev that the page is not the first, and a page beyond
\* totalPages is empty.
C31_PagesPartition ==
    (result # Undefined /\ result.status = 200)
    => LET selected == Selected(arg.log, arg.query)
           n == Cardinality(selected)
           all == Pages(arg, 1, result.totalPages)
       IN  /\ Len(all) = n
           /\ Range(all) = {arg.log[i] : i \in selected}
           /\ \A p \in 1..result.totalPages :
                  2 * Len(Page(arg, p)) <= TwiceLimit(arg.query)
           /\ result.totalPages = Ceil(n, TwiceLimit(arg.query))
           /\ result.hasNext
                  <=> \E p \in (result.currentPage + 1)
                                ..(result.currentPage + n + 1) :
                         Page(arg, p) # <<>>
           /\ result.hasPrev <=> result.currentPage > 1
           /\ result.currentPage > result.totalPages
                  => result.transactions = <<>>

\* ------------------------------------------------- claims: the read routes
ReadKinds == {"transactions", "portfolio", "analytics"}

\* C32: no step of a getTransactions, getPortfolio or getAnalytics request
\* changes the stored balances, lots or transaction log, the order of the log
\* included, and none modifies the wallet or the log of the request's own
\* document, so that nothing of them could be written back.
C32_ReadOnly ==
    [][\A r \in Req :
          (kind[r] \in ReadKinds /\ InFlight(r) /\ pc'[r] # pc[r])
          => /\ db' = db
             /\ pc'[r] # "done" => doc'[r] = doc[r]]_vars

\* two different records were listed, the later one first, and the stored
\* log still has them in the order of their appending
C32_Witness ==
    \E r \in Req :
        /\ kind[r] = "transactions" /\ pc[r] = "json"
        /\ served[r].status = 200 /\ Len(served[r].transactions) = 2
        /\ Len(db.transactions) = 2
        /\ db.transactions[1] # db.transactions[2]
        /\ served[r].transactions[1] = db.transactions[2]
        /\ served[r].transactions[2] = db.transactions[1]

\* ------------------------------------- claims: rates under interleaved calls
\* this step ends a call of getUsdtRate in slot c
Returns(c) ==
    /\ pc'[c] = "done"
    /\ Starts(c) \/ pc[c] \in {"exir", "wallex"}

\* a number greater than 0; positive infinity is one
PositiveNumber(x) == (x.tag = "number" /\ x.v > 0) \/ x = Infinity

\* C34: under every interleaving of getUsdtRate calls, every value stored in
\* the rate cache is a number greater than 0 (never 0, a negative number, NaN
\* or no number at all) that is the fallback or a value a provider of some
\* call returned, and every value returned to a caller is such a number: the
\* fallback or a value that was stored.
C34_PositiveRates ==
    [][/\ cache' # cache
          => /\ PositiveNumber(cache'.value)
             /\ \/ cache'.value = Num(fallback)
                \/ \E q \in Req : \E i \in 1..Len(outcomes'[q]) :
                       outcomes'[q][i] = cache'.value
       /\ \A c \in Req :
             Returns(c)
             => /\ PositiveNumber(usdtRate'[c])
                /\ \/ usdtRate'[c] = Num(fallback)
                   \/ \E i \in 1..Len(resolved') :
                          resolved'[i].value = usdtRate'[c]]_vars

\* two calls missed the cache while overlapping and stored different rates,
\* one of them after a provider had yielded a value that is not usable, and
\* a call has returned the rate stored last without querying a provider
C34_Witness ==
    /\ overlapped
    /\ Len(resolved) >= 2
    /\ resolved[1].value # resolved[2].value
    /\ resolved[1].at = resolved[2].at
    /\ \E c \in Req : /\ Len(outcomes[c]) = 2
                       /\ ~PositiveNumber(outcomes[c][1])
    /\ \E c \in Req : /\ pc[c] = "done" /\ outcomes[c] = <<>>
                       /\ usdtRate[c] = resolved[Len(resolved)].value

\* ------------------------------------------------ claims: the portfolio cache
\* the key under which the valuations of the user of request r are cached
KeyOf(r) == IF doc[r].id = "user" THEN "portfolio_user" ELSE "portfolio_other"

\* the entries of a cache under a key
Under(entries, key) == {e \in entries : e.key = key}

\* C33: a getPortfolio request that finds an unexpired valuation under the
\* key of its own user answers with that valuation and calls neither the
\* rate resolver nor the price gateway; every valuation it answers from the
\* cache is one stored under the key of its own user; and a step of a
\* request, a successful trade included, changes no cache entry of another
\* user.
C33_CachePerUser ==
    [][\A r \in Req :
          (InFlight(r) /\ pc'[r] # pc[r])
          => /\ \A key \in {"portfolio_user", "portfolio_other"} :
                    key # KeyOf(r)
                    => Under(priceCache', key) = Under(priceCache, key)
             /\ (kind[r] = "portfolio" /\ pc[r] = "handler")
                => IF \E e \in Under(priceCache, KeyOf(r)) : ~(e.expires < now)
                   THEN /\ pc'[r] = "done" /\ response'[r] = "Success"
                        /\ \E e \in Under(priceCache, KeyOf(r)) :
                               served'[r] = e.value
                        /\ outcomes' = outcomes /\ usdtRate' = usdtRate
                        /\ cache' = cache /\ priceCache' = priceCache
                   ELSE pc'[r] = "rate"]_vars

\* the first user has been served a valuation and has then traded, which
\* removed it from the cache, while the unexpired valuation of the second
\* user is still cached
C33_Witness ==
    /\ acked > 0
    /\ Under(priceCache, "portfolio_user") = {}
    /\ \E e \in Under(priceCache, "portfolio_other") :
           /\ ~(e.expires < now)
           /\ e.value.balanceBreakdown = otherUser.balance
    /\ \E r \in Req : /\ served[r].tag = "object"
                       /\ served[r].balanceBreakdown = registered.balance

\* ------------------------------------------ claims: whose lists a toggle changes
\* C35: every request is authenticated as the first user, and no step
\* changes the liked or the bookmarked coins of the second user.
C35_OnlyOwnLists ==
    [][/\ dbOther'.likedCoins = dbOther.likedCoins
       /\ dbOther'.bookmarkedCoins = dbOther.bookmarkedCoins]_vars

\* ------------------------------------------- claims: the two generations
\* the trade of a record of the single-balance log as the multi-currency
\* generation runs it, in toman: refused or applied by addTransaction
Rerun(d, tx) ==
    LET b == [coin |-> tx.coin, amount |-> tx.amount, price |-> tx.price,
              currency |-> "TMN"]
        refused == \/ ~transactionSchema(b)
                   \/ tx.type = "buy" /\ insufficientFunds(d, b)
                   \/ tx.type = "sell" /\ insufficientHoldings(d, b)
    IN  IF refused THEN d ELSE addTransaction(d, newTransaction(b, tx.type))

\* the multi-currency document after the trades of a log, one after another
RECURSIVE Replay(_, _)
Replay(d, txs) ==
    IF txs = <<>> THEN d ELSE Replay(Rerun(d, Head(txs)), Tail(txs))

\* a multi-currency wallet that opens with the toman of the single balance
OpeningLike(d) ==
    [registered EXCEPT !.balance["tmn"] = d.wallet.balance]

\* C36: a successful buy of the single-balance generation debits the balance
\* by exactly amount * price and raises the lot of the coin by exactly amount,
\* a successful sell credits exactly amount * price and lowers the lot by
\* exactly amount; and after a sequence of trades without a failure the
\* balance and the holdings equal those the multi-currency generation ends
\* with on the same sequence.
C36_BothGenerationsAgree ==
    [][(legacy' # legacy /\ errors' = 0)
       => LET tx == legacy'.transactions[Len(legacy'.transactions)]
              sign == IF tx.type = "buy" THEN 1 ELSE -1
              current == Replay(OpeningLike(legacyRegistered),
                                legacy'.transactions)
          IN  /\ legacy'.wallet.balance
                    = legacy.wallet.balance - sign * tx.amount * tx.price
              /\ Held(legacy'.wallet.assets, tx.coin)
                    = Held(legacy.wallet.assets, tx.coin) + sign * tx.amount
              /\ legacy'.wallet.balance = current.balance["tmn"]
              /\ \A s \in Symbols :
                     Held(legacy'.wallet.assets, s) = Held(current.assets, s)]_vars
====
